---- MODULE Spec2Model ----
(***************************************************************************)
(* PaletteKnife (src/code.ts): the colour-string codec (stringToRGBA,      *)
(* hexToRgba) and the plugin's document mutation (updateStyleAndReturnID,  *)
(* createPalette, createChipComponent, figma.ui.onmessage).                *)
(*                                                                         *)
(* A JavaScript string is a sequence of one-character strings.  A          *)
(* JavaScript number is NaN or an exact rational in lowest terms           *)
(* [nan, n, d]; the values the model reaches are small enough that the     *)
(* double arithmetic of the code (x / 255, Math.round(x * 255),            *)
(* toFixed(3)) agrees with the exact arithmetic used here.                 *)
(***************************************************************************)
EXTENDS Integers, Sequences, FiniteSets, TLC

VARIABLES
    \* --- codec harness: one colour string pushed through the codec
    input,      \* the colour string handed to stringToRGBA / hexToRgba
    shape,      \* how that string was put together (fields, padding, junk)
    rgba,       \* stringToRGBA(input)
    out,        \* hexToRgba(input)
    back,       \* stringToRGBA(out)
    cpc,        \* "start" -> "parsed" -> "serialized" -> "done"
    \* --- plugin: the host document and the running plugin
    page,       \* figma.currentPage.children, in order
    styles,     \* figma.getLocalPaintStyles(), in order
    nextId,     \* next id the host hands out (styles and nodes)
    loading,    \* the handler's `loading` flag
    pending,    \* font loads started and not yet settled
    closed,     \* figma.closePlugin() has been called in this session
    sessions,   \* plugin launches so far
    last        \* what the last step of the plugin did (observation record)

codecVars == <<input, shape, rgba, out, back, cpc>>
pluginVars == <<page, styles, nextId, loading, pending, closed, sessions, last>>
vars == <<input, shape, rgba, out, back, cpc,
          page, styles, nextId, loading, pending, closed, sessions, last>>

(***************************************************************************)
(* JavaScript numbers                                                      *)
(***************************************************************************)
Abs(x) == IF x < 0 THEN -x ELSE x

RECURSIVE GCD(_, _)
GCD(a, b) == IF b = 0 THEN a ELSE GCD(b, a % b)

\* the number n/d (d > 0) in lowest terms
Rat(n, d) ==
    LET g == GCD(Abs(n), d)
    IN  [nan |-> FALSE, n |-> n \div g, d |-> d \div g]

NaN == [nan |-> TRUE, n |-> 0, d |-> 1]
Num(n) == Rat(n, 1)

\* x / k for a positive integer k
DivBy(x, k) == IF x.nan THEN NaN ELSE Rat(x.n, x.d * k)

\* x * k for an integer k
Times(x, k) == IF x.nan THEN NaN ELSE Rat(x.n * k, x.d)

\* Math.round: the nearest integer, ties towards +infinity
MathRound(x) == IF x.nan THEN NaN ELSE Num((2 * x.n + x.d) \div (2 * x.d))

Leq(x, y) == ~x.nan /\ ~y.nan /\ x.n * y.d <= y.n * x.d

\* |x - y| <= n/d
Within(x, y, n, d) ==
    ~x.nan /\ ~y.nan /\ Abs(x.n * y.d - y.n * x.d) * d <= n * x.d * y.d

RECURSIVE Pow10(_)
Pow10(k) == IF k = 0 THEN 1 ELSE 10 * Pow10(k - 1)

(***************************************************************************)
(* Characters                                                              *)
(***************************************************************************)
\* the value of a character as a digit (ECMAScript parseInt: 0-9, a-z, A-Z);
\* 99 for a character that is no digit in any radix
DigitValue(c) ==
    CASE c = "0" -> 0  [] c = "1" -> 1  [] c = "2" -> 2  [] c = "3" -> 3
      [] c = "4" -> 4  [] c = "5" -> 5  [] c = "6" -> 6  [] c = "7" -> 7
      [] c = "8" -> 8  [] c = "9" -> 9
      [] c \in {"a", "A"} -> 10 [] c \in {"b", "B"} -> 11
      [] c \in {"c", "C"} -> 12 [] c \in {"d", "D"} -> 13
      [] c \in {"e", "E"} -> 14 [] c \in {"f", "F"} -> 15
      [] c \in {"g", "G"} -> 16 [] c \in {"x", "X"} -> 33
      [] OTHER -> 99

\* the regular expression class \s (also what parseInt skips at the start)
IsSpace(c) == c \in {" ", "\t", "\n"}

\* the letters of the two keywords under the regular expressions' i flag
ToLower(c) ==
    CASE c = "R" -> "r" [] c = "G" -> "g" [] c = "B" -> "b" [] c = "A" -> "a"
      [] OTHER -> c

\* first index >= i of s that holds no white space (Len(s) + 1 if none)
RECURSIVE SkipSpace(_, _)
SkipSpace(s, i) ==
    IF i <= Len(s) /\ IsSpace(s[i]) THEN SkipSpace(s, i + 1) ELSE i

\* first index >= i of s that holds no digit of the radix (Len(s) + 1 if none)
RECURSIVE SkipDigits(_, _, _)
SkipDigits(s, i, radix) ==
    IF i <= Len(s) /\ DigitValue(s[i]) < radix
    THEN SkipDigits(s, i + 1, radix) ELSE i

\* the value of a non-empty run of digits of the radix
RECURSIVE DigitsValue(_, _)
DigitsValue(s, radix) ==
    IF s = <<>> THEN 0
    ELSE DigitsValue(SubSeq(s, 1, Len(s) - 1), radix) * radix
         + DigitValue(s[Len(s)])

(***************************************************************************)
(* parseInt and parseFloat                                                 *)
(***************************************************************************)
\* parseInt(s, radix) for radix 10 and 16: leading white space, a sign, for
\* radix 16 a 0x prefix, then the longest run of digits; NaN if that is empty
parseInt(s, radix) ==
    LET i0    == SkipSpace(s, 1)
        neg   == i0 <= Len(s) /\ s[i0] = "-"
        i1    == IF i0 <= Len(s) /\ s[i0] \in {"-", "+"} THEN i0 + 1 ELSE i0
        i2    == IF radix = 16 /\ i1 + 1 <= Len(s) /\ s[i1] = "0"
                    /\ s[i1 + 1] \in {"x", "X"}
                 THEN i1 + 2 ELSE i1
        j     == SkipDigits(s, i2, radix)
        v     == DigitsValue(SubSeq(s, i2, j - 1), radix)
    IN  IF j = i2 THEN NaN ELSE Num(IF neg THEN -v ELSE v)

\* parseFloat(s) on the text the alpha capture group can hold: digits, then
\* optionally a point and digits
parseFloat(s) ==
    LET i0   == SkipSpace(s, 1)
        j    == SkipDigits(s, i0, 10)
        dot  == j <= Len(s) /\ s[j] = "."
        k    == IF dot THEN SkipDigits(s, j + 1, 10) ELSE j
        ip   == SubSeq(s, i0, j - 1)
        fp   == IF dot THEN SubSeq(s, j + 1, k - 1) ELSE <<>>
    IN  IF ip = <<>> /\ fp = <<>> THEN NaN
        ELSE Rat(DigitsValue(ip \o fp, 10), Pow10(Len(fp)))

(***************************************************************************)
(* Regular expressions: a pattern is a sequence of tokens, matched from    *)
(* the first character of the string.  Each token of the two patterns is   *)
(* followed by one that its own characters cannot start, so matching each  *)
(* token greedily is what the backtracking matcher finds.                  *)
(***************************************************************************)
Lit(c)  == [t |-> "lit", c |-> c]      \* a literal character, i flag
Ws      == [t |-> "ws",  c |-> ""]     \* \s*
CapInt  == [t |-> "int", c |-> ""]     \* (\d+)
CapDec  == [t |-> "dec", c |-> ""]     \* (\d+(?:\.\d+)?)
End     == [t |-> "end", c |-> ""]     \* $

NoMatch == [ok |-> FALSE, caps |-> <<>>]

RECURSIVE RegExec(_, _, _, _, _)
RegExec(re, s, k, i, caps) ==
    IF k > Len(re) THEN [ok |-> TRUE, caps |-> caps]
    ELSE LET tok == re[k] IN
      CASE tok.t = "lit" ->
             IF i <= Len(s) /\ ToLower(s[i]) = tok.c
             THEN RegExec(re, s, k + 1, i + 1, caps) ELSE NoMatch
        [] tok.t = "ws" -> RegExec(re, s, k + 1, SkipSpace(s, i), caps)
        [] tok.t = "int" ->
             LET j == SkipDigits(s, i, 10)
             IN  IF j > i
                 THEN RegExec(re, s, k + 1, j, Append(caps, SubSeq(s, i, j - 1)))
                 ELSE NoMatch
        [] tok.t = "dec" ->
             LET j  == SkipDigits(s, i, 10)
                 j2 == IF j <= Len(s) /\ s[j] = "."
                       THEN SkipDigits(s, j + 1, 10) ELSE j
                 e  == IF j2 > j + 1 THEN j2 ELSE j
             IN  IF j > i
                 THEN RegExec(re, s, k + 1, e, Append(caps, SubSeq(s, i, e - 1)))
                 ELSE NoMatch
        [] tok.t = "end" ->
             IF i = Len(s) + 1 THEN RegExec(re, s, k + 1, i, caps) ELSE NoMatch

\* colorString.match(re): the capture groups, or no match
Match(s, re) == RegExec(re, s, 1, 1, <<>>)

\* /^rgb\s*\(\s*(\d+)\s*,\s*(\d+)\s*,\s*(\d+)\s*\)$/i
rgbRegEx ==
    <<Lit("r"), Lit("g"), Lit("b"), Ws, Lit("("),
      Ws, CapInt, Ws, Lit(","),
      Ws, CapInt, Ws, Lit(","),
      Ws, CapInt, Ws, Lit(")"), End>>

\* /^rgba\s*\(\s*(\d+)\s*,\s*(\d+)\s*,\s*(\d+)\s*,\s*(\d+(?:\.\d+)?)\)/i
rgbaRegEx ==
    <<Lit("r"), Lit("g"), Lit("b"), Lit("a"), Ws, Lit("("),
      Ws, CapInt, Ws, Lit(","),
      Ws, CapInt, Ws, Lit(","),
      Ws, CapInt, Ws, Lit(","),
      Ws, CapDec, Lit(")")>>

(***************************************************************************)
(* stringToRGBA                                                            *)
(***************************************************************************)
NibbleChannelBy16(s, i) == DivBy(parseInt(<<s[i]>>, 16), 16)

\* one hex digit of #RGB: parseInt(colorString[i], 16) / 15
NibbleChannel(s, i) == DivBy(parseInt(<<s[i]>>, 16), 15)

\* one byte of #RRGGBB / #RRGGBBAA: parseInt(colorString.substr(i, 2), 16) / 255
\* (i is the 0-based position of the code)
ByteChannel(s, i) == DivBy(parseInt(SubSeq(s, i + 1, i + 2), 16), 255)

DecChannelBy15(cap) == DivBy(parseInt(cap, 10), 15)

\* one integer capture of rgb() / rgba(): parseInt(m[k], 10) / 255
DecChannel(cap) == DivBy(parseInt(cap, 10), 255)

AlphaChannelBy255(cap) == DivBy(parseFloat(cap), 255)

\* the alpha capture of rgba(): parseFloat(m[4])
AlphaChannel(cap) == parseFloat(cap)

\* { r: 0, g: 0, b: 0, a: 0 }
Fallback == [r |-> Num(0), g |-> Num(0), b |-> Num(0), a |-> Num(0)]

\* the else branch: the two regular expressions, rgb first
FunctionalToRGBA(s) ==
    LET rgbMatch  == Match(s, rgbRegEx)
        rgbaMatch == Match(s, rgbaRegEx)
    IN  IF rgbMatch.ok
        THEN [r |-> DecChannel(rgbMatch.caps[1]),
              g |-> DecChannel(rgbMatch.caps[2]),
              b |-> DecChannel(rgbMatch.caps[3])]
        ELSE IF rgbaMatch.ok
        THEN [r |-> DecChannel(rgbaMatch.caps[1]),
              g |-> DecChannel(rgbaMatch.caps[2]),
              b |-> DecChannel(rgbaMatch.caps[3]),
              a |-> AlphaChannel(rgbaMatch.caps[4])]
        ELSE Fallback

stringToRGBANoHashTest(s) ==
    IF Len(s) = 4
    THEN [r |-> NibbleChannel(s, 2),
          g |-> NibbleChannel(s, 3),
          b |-> NibbleChannel(s, 4)]
    ELSE IF Len(s) = 7
    THEN [r |-> ByteChannel(s, 1),
          g |-> ByteChannel(s, 3),
          b |-> ByteChannel(s, 5)]
    ELSE IF Len(s) = 9
    THEN [r |-> ByteChannel(s, 1),
          g |-> ByteChannel(s, 3),
          b |-> ByteChannel(s, 5),
          a |-> ByteChannel(s, 7)]
    ELSE FunctionalToRGBA(s)

stringToRGBA(s) ==
    IF Len(s) = 4
    THEN IF s[1] = "#"
         THEN [r |-> NibbleChannel(s, 2),
               g |-> NibbleChannel(s, 3),
               b |-> NibbleChannel(s, 4)]
         ELSE Fallback
    ELSE IF Len(s) = 7
    THEN IF s[1] = "#"
         THEN [r |-> ByteChannel(s, 1),
               g |-> ByteChannel(s, 3),
               b |-> ByteChannel(s, 5)]
         ELSE Fallback
    ELSE IF Len(s) = 9
    THEN IF s[1] = "#"
         THEN [r |-> ByteChannel(s, 1),
               g |-> ByteChannel(s, 3),
               b |-> ByteChannel(s, 5),
               a |-> ByteChannel(s, 7)]
         ELSE Fallback
    ELSE FunctionalToRGBA(s)

\* rgba.a != undefined
HasAlpha(c) == "a" \in DOMAIN c

(***************************************************************************)
(* hexToRgba                                                               *)
(***************************************************************************)
DigitChar(d) == <<"0", "1", "2", "3", "4", "5", "6", "7", "8", "9">>[d + 1]

\* the decimal digits of a natural number
RECURSIVE NatToString(_)
NatToString(n) ==
    IF n < 10 THEN <<DigitChar(n)>>
    ELSE Append(NatToString(n \div 10), DigitChar(n % 10))

\* string concatenation of a number that holds NaN or an integer
NumberToString(x) ==
    IF x.nan THEN <<"N", "a", "N">>
    ELSE IF x.n < 0 THEN <<"-">> \o NatToString(-x.n)
    ELSE NatToString(x.n)

ChannelToStringBy256(x) == NumberToString(MathRound(Times(x, 256)))

\* Math.round(channel * 255), as text
ChannelToString(x) == NumberToString(MathRound(Times(x, 255)))

\* x.toFixed(3): the integer nearest to x * 1000 (the larger on a tie), with
\* a point before its last three digits
RECURSIVE PadLeft(_, _)
PadLeft(s, w) == IF Len(s) >= w THEN s ELSE PadLeft(<<"0">> \o s, w)

ToFixedAsByte(x) == ChannelToString(x)

ToFixed3(x) ==
    IF x.nan THEN <<"N", "a", "N">>
    ELSE LET m  == Abs(x.n)
             n  == (2 * m * 1000 + x.d) \div (2 * x.d)
             ds == PadLeft(NatToString(n), 4)
         IN  (IF x.n < 0 THEN <<"-">> ELSE <<>>)
             \o SubSeq(ds, 1, Len(ds) - 3) \o <<".">>
             \o SubSeq(ds, Len(ds) - 2, Len(ds))

Sep == <<",", " ">>

hexToRgba(s) ==
    LET c == stringToRGBA(s)
    IN  IF HasAlpha(c)
        THEN <<"r", "g", "b", "a", "(">> \o ChannelToString(c.r) \o Sep
             \o ChannelToString(c.g) \o Sep \o ChannelToString(c.b) \o Sep
             \o ToFixed3(c.a) \o <<")">>
        ELSE <<"r", "g", "b", "(">> \o ChannelToString(c.r) \o Sep
             \o ChannelToString(c.g) \o Sep \o ChannelToString(c.b) \o <<")">>

(***************************************************************************)
(* Codec harness: the colour strings the codec is run on.  A shape keeps   *)
(* the parts a string is put together from; each numeric field carries the *)
(* text written in the string and the value that text denotes.             *)
(***************************************************************************)
\* a field: its text, the value n/d the text denotes, whether it is well formed
F(text, n, d, valid) == [text |-> text, val |-> Rat(n, d), valid |-> valid]

\* one hex digit of #RGB; invalid: not a hex digit
HexNibbles ==
    { F(<<"0">>, 0, 1, TRUE), F(<<"7">>, 7, 1, TRUE), F(<<"a">>, 10, 1, TRUE),
      F(<<"F">>, 15, 1, TRUE), F(<<"G">>, 0, 1, FALSE), F(<<" ">>, 0, 1, FALSE) }

\* one byte of #RRGGBB / #RRGGBBAA
HexBytes ==
    { F(<<"0", "0">>, 0, 1, TRUE), F(<<"7", "f">>, 127, 1, TRUE),
      F(<<"F", "F">>, 255, 1, TRUE), F(<<"a", "5">>, 165, 1, TRUE),
      F(<<"0", "G">>, 0, 1, FALSE), F(<<"G", "0">>, 0, 1, FALSE),
      F(<<"-", "1">>, 0, 1, FALSE), F(<<" ", "F">>, 0, 1, FALSE),
      F(<<"0", "x">>, 0, 1, FALSE) }

HexBytesFew ==
    { F(<<"0", "0">>, 0, 1, TRUE), F(<<"7", "f">>, 127, 1, TRUE),
      F(<<"F", "F">>, 255, 1, TRUE), F(<<"G", "0">>, 0, 1, FALSE),
      F(<<"-", "1">>, 0, 1, FALSE) }

\* decimal integers of rgb() / rgba()
DecInts ==
    { F(<<"0">>, 0, 1, TRUE), F(<<"1", "0">>, 10, 1, TRUE),
      F(<<"2", "5", "5">>, 255, 1, TRUE), F(<<"3", "0", "0">>, 300, 1, TRUE),
      F(<<"0", "0", "7">>, 7, 1, TRUE) }

DecIntsFew ==
    { F(<<"0">>, 0, 1, TRUE), F(<<"2", "5", "5">>, 255, 1, TRUE),
      F(<<"1", "2", "8">>, 128, 1, TRUE) }

\* alpha values of rgba()
Alphas ==
    { F(<<"0">>, 0, 1, TRUE), F(<<"1">>, 1, 1, TRUE),
      F(<<"0", ".", "5">>, 1, 2, TRUE),
      F(<<"0", ".", "5", "0", "0">>, 1, 2, TRUE),
      F(<<"0", ".", "1", "2", "3", "4">>, 617, 5000, TRUE),
      F(<<"0", ".", "9", "9", "9", "6">>, 2499, 2500, TRUE),
      F(<<"1", ".", "2", "5">>, 5, 4, TRUE),
      F(<<"2">>, 2, 1, TRUE) }

\* the keywords in every letter case
RgbWords ==
    { <<r, g, b>> : r \in {"r", "R"}, g \in {"g", "G"}, b \in {"b", "B"} }
RgbaWords ==
    { <<r, g, b, a>> : r \in {"r", "R"}, g \in {"g", "G"},
                       b \in {"b", "B"}, a \in {"a", "A"} }

\* optional white space at one place of a functional string
Pads == { <<>>, <<" ">> }

\* extra characters before / after a functional string
JunkBefore == { <<>>, <<"x">>, <<" ">> }
JunkAfter  == { <<>>, <<"x">>, <<" ">>, <<")">> }

NoPad(n) == [i \in 1..n |-> <<>>]

Shape(kind, kw, args, ws, pre, suf) ==
    [kind |-> kind, kw |-> kw, args |-> args, ws |-> ws, pre |-> pre,
     suf |-> suf]

HexShapes ==
    { Shape("hex", <<"#">>, a, <<>>, <<>>, <<>>) :
        a \in (HexNibbles \X HexNibbles \X HexNibbles)
              \cup (HexBytes \X HexBytes \X HexBytes)
              \cup (HexBytesFew \X HexBytesFew \X HexBytesFew \X HexBytesFew) }

CompactShapes ==
    { Shape("func", kw, a, NoPad(7), <<>>, <<>>) :
        kw \in RgbWords, a \in DecInts \X DecInts \X DecInts }
    \cup
    { Shape("func", kw, a, NoPad(9), <<>>, <<>>) :
        kw \in RgbaWords,
        a \in DecIntsFew \X DecIntsFew \X DecIntsFew \X Alphas }

RgbSample ==
    << F(<<"1", "0">>, 10, 1, TRUE), F(<<"2", "0">>, 20, 1, TRUE),
       F(<<"3", "0">>, 30, 1, TRUE) >>
RgbaSample ==
    << F(<<"1">>, 1, 1, TRUE), F(<<"2">>, 2, 1, TRUE), F(<<"3">>, 3, 1, TRUE),
       F(<<"0", ".", "5">>, 1, 2, TRUE) >>

PaddedShapes ==
    { Shape("func", <<"r", "g", "b">>, RgbSample, ws, <<>>, <<>>) :
        ws \in [1..7 -> Pads] }
    \cup
    { Shape("func", <<"r", "g", "b", "a">>, RgbaSample, ws, <<>>, <<>>) :
        ws \in [1..9 -> Pads] }
    \cup
    { Shape("func", <<"R", "G", "B">>, RgbSample,
            [i \in 1..7 |-> <<"\t", " ">>], <<>>, <<>>),
      Shape("func", <<"R", "G", "B", "A">>, RgbaSample,
            [i \in 1..9 |-> IF i = 9 THEN <<>> ELSE <<"\n">>], <<>>, <<>>) }

JunkShapes ==
    { Shape("func", <<"r", "g", "b">>, RgbSample, NoPad(7), pre, suf) :
        pre \in JunkBefore, suf \in JunkAfter }
    \cup
    { Shape("func", <<"r", "g", "b", "a">>, RgbaSample, NoPad(9), pre, suf) :
        pre \in JunkBefore, suf \in JunkAfter }

\* strings of no notation; the text is kept in pre
RawTexts ==
    { <<>>, <<"#">>, <<"#", "1", "2">>, <<"#", "1", "2", "3", "4", "5">>,
      <<"n", "o", "t", "-", "a", "-", "c", "o", "l", "o", "r">>,
      <<"a", "b", "c", "d">>,
      <<"f", "f", "0", "0">>,
      <<" ", "#", "f", "0">>,
      <<"f", "f", "0", "0", "0", "0", "f">>,
      <<"f", "f", "0", "0", "0", "0", "f", "f", "0">>,
      <<"R", "G", "B", "(", "1", ",", "2", ",", "3">>,
      <<"r", "g", "b", "a", "(", "1", ",", "2", ",">>,
      <<"r", "e", "d">>,
      <<"r", "g", "b", "(">>,
      <<"r", "g", "b", "(", "1", ",", "2">>,
      <<"r", "g", "b", "(", "1", ",", "2", ",", ")">>,
      <<"r", "g", "b", "(", "1", ",", "2", ")">>,
      <<"r", "g", "b", "(", "1", ",", "2", ",", "3">>,
      <<"r", "g", "b", "(", "1", ",", "2", ",", "3", ",", "4", ")">>,
      <<"r", "g", "b", "(", "1", ".", "5", ",", "2", ",", "3", ")">>,
      <<"r", "g", "b", "(", "-", "1", ",", "2", ",", "3", ")">>,
      <<"r", "g", "b", "a", "(", "1", ",", "2", ",", "3", ")">>,
      <<"r", "g", "b", "a", "(", "1", ",", "2", ",", "3", ",", ".", "5", ")">>,
      <<"r", "g", "b", "a", "(", "1", ",", "2", ",", "3", ",", "0", ".", ")">>,
      <<"h", "s", "l", "(", "1", ",", "2", ",", "3", ")">> }

RawShapes == { Shape("raw", <<>>, <<>>, <<>>, t, <<>>) : t \in RawTexts }

Shapes ==
    HexShapes \cup CompactShapes \cup PaddedShapes \cup JunkShapes
    \cup RawShapes

RECURSIVE Concat(_)
Concat(ss) == IF ss = <<>> THEN <<>> ELSE Head(ss) \o Concat(Tail(ss))

\* the arguments k.. of a functional string, each between its two pads
RECURSIVE ArgList(_, _, _)
ArgList(args, ws, k) ==
    IF k > Len(args) THEN <<>>
    ELSE (IF k > 1 THEN <<",">> ELSE <<>>)
         \o ws[2 * k] \o args[k].text \o ws[2 * k + 1]
         \o ArgList(args, ws, k + 1)

\* the string a shape stands for
Render(sh) ==
    CASE sh.kind = "hex" ->
           sh.kw \o Concat([i \in 1..Len(sh.args) |-> sh.args[i].text])
      [] sh.kind = "func" ->
           sh.pre \o sh.kw \o sh.ws[1] \o <<"(">>
           \o ArgList(sh.args, sh.ws, 1) \o <<")">> \o sh.suf
      [] OTHER -> sh.pre

\* the same functional string without optional white space
Compact(sh) == [sh EXCEPT !.ws = NoPad(Len(sh.ws))]

(***************************************************************************)
(* Codec harness: Init draws the string, the actions run the codec on it.  *)
(***************************************************************************)
NoColor == [r |-> NaN, g |-> NaN, b |-> NaN]

PluginIdle ==
    /\ page = <<>>
    /\ styles = <<>>
    /\ nextId = 1
    /\ loading = FALSE
    /\ pending = <<>>
    /\ closed = FALSE
    /\ sessions = 0
    /\ last = [op |-> "none"]

CodecInit ==
    /\ shape \in Shapes
    /\ input = Render(shape)
    /\ rgba = NoColor
    /\ out = <<>>
    /\ back = NoColor
    /\ cpc = "start"
    /\ PluginIdle

\* stringToRGBA(input)
Parse ==
    /\ cpc = "start"
    /\ rgba' = stringToRGBA(input)
    /\ cpc' = "parsed"
    /\ UNCHANGED <<input, shape, out, back>>
    /\ UNCHANGED pluginVars

\* hexToRgba(input)
Serialize ==
    /\ cpc = "parsed"
    /\ out' = hexToRgba(input)
    /\ cpc' = "serialized"
    /\ UNCHANGED <<input, shape, rgba, back>>
    /\ UNCHANGED pluginVars

\* stringToRGBA(hexToRgba(input))
Reparse ==
    /\ cpc = "serialized"
    /\ back' = stringToRGBA(out)
    /\ cpc' = "done"
    /\ UNCHANGED <<input, shape, rgba, out>>
    /\ UNCHANGED pluginVars

CodecNext == Parse \/ Serialize \/ Reparse

SpecCodec == CodecInit /\ [][CodecNext]_vars

(***************************************************************************)
(* Properties of the codec (checked under SpecCodec)                       *)
(***************************************************************************)
Parsed == cpc # "start"
Serialized == cpc \in {"serialized", "done"}

AllValid(sh) == \A i \in 1..Len(sh.args) : sh.args[i].valid
IsCompact(sh) ==
    sh.kind = "func" /\ sh.ws = NoPad(Len(sh.ws)) /\ sh.pre = <<>>
    /\ sh.suf = <<>>

\* C1: a string of length 4, 7 or 9 that starts with '#' and holds hex digits
\* parses to nibble/15 (length 4) or byte/255 (length 7, 9) per channel, with
\* an a field exactly for length 9.
C1_HexParse ==
    (Parsed /\ shape.kind = "hex" /\ AllValid(shape)) =>
        LET f     == shape.args
            scale == IF Len(f[1].text) = 1 THEN 15 ELSE 255
        IN  /\ rgba.r = DivBy(f[1].val, scale)
            /\ rgba.g = DivBy(f[2].val, scale)
            /\ rgba.b = DivBy(f[3].val, scale)
            /\ HasAlpha(rgba) <=> Len(f) = 4
            /\ Len(f) = 4 => rgba.a = DivBy(f[4].val, 255)

C1_Witness ==
    /\ cpc = "parsed" /\ shape.kind = "hex" /\ AllValid(shape)
    /\ Len(input) = 4 /\ rgba.r = Rat(7, 15) /\ rgba.b = Num(1)

\* C2: compact rgb(R,G,B) / rgba(R,G,B,A), keyword in any letter case, parses
\* to R/255, G/255, B/255, and a equal to A as written, present only for rgba.
C2_FunctionalParse ==
    (Parsed /\ IsCompact(shape)) =>
        LET f == shape.args
        IN  /\ rgba.r = DivBy(f[1].val, 255)
            /\ rgba.g = DivBy(f[2].val, 255)
            /\ rgba.b = DivBy(f[3].val, 255)
            /\ HasAlpha(rgba) <=> Len(f) = 4
            /\ Len(f) = 4 => rgba.a = f[4].val

C2_Witness ==
    /\ cpc = "parsed" /\ IsCompact(shape)
    /\ shape.kw = <<"R", "G", "B", "A">>
    /\ rgba.a = Rat(1, 2) /\ rgba.r = Num(1)

\* C3: optional white space just inside the parentheses and around every
\* numeric argument, the alpha of rgba included, does not change the result.
C3_PaddingIgnored ==
    (Parsed /\ shape.kind = "func" /\ shape.pre = <<>> /\ shape.suf = <<>>
       /\ shape.ws[1] = <<>>) =>
        rgba = stringToRGBA(Render(Compact(shape)))

\* the strings C4 counts as one of the five shapes
Recognized(sh) ==
    \/ sh.kind = "hex"
    \/ sh.kind = "func" /\ sh.pre = <<>> /\ sh.suf = <<>>

\* C4: a string that is not as a whole one of the five shapes, such as a
\* well-formed rgb(...) or rgba(...) with extra characters before or after
\* it, parses to the fallback {r:0, g:0, b:0, a:0}.
C4_UnrecognizedFallsBack ==
    (Parsed /\ ~Recognized(shape)) => rgba = Fallback

\* --- reading hexToRgba's output back, piece by piece
RECURSIVE FindSep(_, _)
FindSep(s, i) ==
    IF i + 1 > Len(s) THEN 0
    ELSE IF s[i] = "," /\ s[i + 1] = " " THEN i ELSE FindSep(s, i + 1)

RECURSIVE SplitArgs(_)
SplitArgs(s) ==
    LET i == FindSep(s, 1)
    IN  IF i = 0 THEN <<s>>
        ELSE <<SubSeq(s, 1, i - 1)>> \o SplitArgs(SubSeq(s, i + 2, Len(s)))

Negative(p) == p # <<>> /\ p[1] = "-"
Unsigned(p) == IF Negative(p) THEN Tail(p) ELSE p
AllDigits(p) == p # <<>> /\ \A i \in 1..Len(p) : DigitValue(p[i]) < 10

IsIntegerText(p) == AllDigits(Unsigned(p))
IntegerTextValue(p) ==
    LET v == DigitsValue(Unsigned(p), 10)
    IN  Num(IF Negative(p) THEN -v ELSE v)

IsFixed3Text(p) ==
    LET u == Unsigned(p)
    IN  /\ Len(u) >= 5
        /\ u[Len(u) - 3] = "."
        /\ AllDigits(SubSeq(u, 1, Len(u) - 4))
        /\ AllDigits(SubSeq(u, Len(u) - 2, Len(u)))
Fixed3Value(p) ==
    LET u == Unsigned(p)
        v == DigitsValue(SubSeq(u, 1, Len(u) - 4)
                         \o SubSeq(u, Len(u) - 2, Len(u)), 10)
    IN  Rat(IF Negative(p) THEN -v ELSE v, 1000)

\* out is 'rgb(R, G, B)' or, exactly when rgba has an a field,
\* 'rgba(R, G, B, A)': R, G, B decimal integers equal to round(channel*255),
\* A the alpha with exactly 3 digits after the point; for hex input with hex
\* digits R, G, B are the bytes written (nibble * 17 for #RGB)
PrintedAsClaimed ==
    LET hasA  == HasAlpha(rgba)
        pre   == IF hasA THEN <<"r", "g", "b", "a", "(">>
                 ELSE <<"r", "g", "b", "(">>
        parts == SplitArgs(SubSeq(out, Len(pre) + 1, Len(out) - 1))
        ch    == <<rgba.r, rgba.g, rgba.b>>
        f     == shape.args
        unit  == IF Len(input) = 4 THEN 17 ELSE 1
    IN  /\ Len(out) > Len(pre) + 1
        /\ SubSeq(out, 1, Len(pre)) = pre
        /\ out[Len(out)] = ")"
        /\ Len(parts) = IF hasA THEN 4 ELSE 3
        /\ \A i \in 1..3 :
             /\ IsIntegerText(parts[i])
             /\ IntegerTextValue(parts[i]) = MathRound(Times(ch[i], 255))
        /\ hasA => /\ IsFixed3Text(parts[4])
                   /\ Within(Fixed3Value(parts[4]), rgba.a, 1, 2000)
        /\ (shape.kind = "hex" /\ AllValid(shape)) =>
             \A i \in 1..3 : IntegerTextValue(parts[i]) = Times(f[i].val, unit)

NoNaN(c) ==
    /\ ~c.r.nan /\ ~c.g.nan /\ ~c.b.nan
    /\ HasAlpha(c) => ~c.a.nan

InUnit(x) == Leq(Num(0), x) /\ Leq(x, Num(1))
InRange(c) ==
    /\ InUnit(c.r) /\ InUnit(c.g) /\ InUnit(c.b)
    /\ HasAlpha(c) => InUnit(c.a)

\* C7 as stated: a string of one of the five notations with valid digits of
\* any magnitude parses to r, g, b in [0, 1] and a absent or in [0, 1].
C7_InRangeAnyMagnitude ==
    (Parsed /\ Recognized(shape) /\ AllValid(shape)) => InRange(rgba)

SmallFields(sh) ==
    \A i \in 1..Len(sh.args) :
        Leq(sh.args[i].val, IF i = 4 THEN Num(1) ELSE Num(255))

\* C7 as amended: the same when every decimal integer written is at most 255
\* and the alpha written is at most 1.
C7_InRangeSmallFields ==
    (Parsed /\ Recognized(shape) /\ AllValid(shape)
       /\ (shape.kind = "func" => SmallFields(shape))) => InRange(rgba)

C7_Witness ==
    /\ cpc = "parsed" /\ IsCompact(shape) /\ SmallFields(shape)
    /\ HasAlpha(rgba) /\ rgba.a = Num(1) /\ rgba.g = Num(1)
    /\ rgba.b = Rat(128, 255)

\* A hex-length string without the '#': length 4, 7 or 9, first character
\* not '#'.
HexLengthNoHash(s) == Len(s) \in {4, 7, 9} /\ s[1] # "#"

\* C11: for every string of length 4, 7 or 9 that does not start with '#',
\* stringToRGBA returns what the rgb() test, then the rgba() test, then the
\* fallback return for that string.
C11_SameAsFunctionalChecks ==
    (Parsed /\ HexLengthNoHash(input)) => rgba = FunctionalToRGBA(input)

C11_Witness ==
    /\ cpc = "parsed" /\ HexLengthNoHash(input)
    /\ Len(input) = 9 /\ input[1] = "r" /\ input[9] = "3"
    /\ rgba = Fallback

(***************************************************************************)
(* The host document.  A name is a string (a sequence of characters).  A   *)
(* node is a record; the children of a component or instance are leaves.   *)
(***************************************************************************)
Node(type, name, y, height, children) ==
    [type |-> type, name |-> name, y |-> y, height |-> height,
     children |-> children, fillStyleId |-> 0, characters |-> <<>>,
     layoutMode |-> "NONE"]

PaintChipName   == <<"P", "a", "i", "n", "t", "C", "h", "i", "p">>
PaletteChipName == <<"P", "a", "l", "e", "t", "t", "e", "C", "h", "i", "p">>
ColorName       == <<"C", "o", "l", "o", "r">>
NameName        == <<"N", "a", "m", "e">>

\* chip.resize(128, 32 + 4.0)
ChipHeight == 36

\* index of the first element of a list of nodes with this name and type, or
\* 0: node.findOne over leaf children, page.findChild over the top level
RECURSIVE FindFrom(_, _, _, _)
FindFrom(nodes, name, type, i) ==
    IF i > Len(nodes) THEN 0
    ELSE IF nodes[i].name = name /\ nodes[i].type = type THEN i
    ELSE FindFrom(nodes, name, type, i + 1)

findChild(node, name, type) == FindFrom(node.children, name, type, 1)

(***************************************************************************)
(* updateStyleAndReturnID                                                  *)
(***************************************************************************)
FindStyleNever(paintStyles, colorName, i) == 0

\* paintStyles.find(style => style.name === colorName): the index of the
\* first style of the list with exactly this name, or 0
RECURSIVE FindStyle(_, _, _)
FindStyle(paintStyles, colorName, i) ==
    IF i > Len(paintStyles) THEN 0
    ELSE IF paintStyles[i].name = colorName THEN i
    ELSE FindStyle(paintStyles, colorName, i + 1)

\* the two branches of updateStyleAndReturnID, i being what find returned
\* doc: the host's styles and id counter.
\* reject: the host refuses the paints (the setter throws).
\* Yields the styles, the counter, the id returned and whether it threw.
UpdateOrCreate(doc, i, colorName, solidPaint, reject) ==
    IF i # 0
    THEN [styles |-> IF reject THEN doc.styles
                     ELSE [doc.styles EXCEPT ![i].paints = <<solidPaint>>],
          nextId |-> doc.nextId,
          id     |-> IF reject THEN 0 ELSE doc.styles[i].id,
          found  |-> TRUE]
    ELSE [styles |-> Append(doc.styles,
                       [id |-> doc.nextId, name |-> colorName,
                        paints |-> IF reject THEN <<>> ELSE <<solidPaint>>]),
          nextId |-> doc.nextId + 1,
          id     |-> IF reject THEN 0 ELSE doc.nextId,
          found  |-> FALSE]

\* known: how many of the styles the paintStyles list of this run holds
\* (those present when the run began)
updateStyleAndReturnID(doc, known, colorName, solidPaint, reject) ==
    UpdateOrCreate(doc, FindStyle(SubSeq(doc.styles, 1, known), colorName, 1),
                   colorName, solidPaint, reject)

(***************************************************************************)
(* createPalette                                                           *)
(***************************************************************************)
\* { type: "SOLID", color: { r, g, b }, opacity: rgba.a }
SolidPaint(c) ==
    IF HasAlpha(c)
    THEN [type |-> "SOLID", color |-> [r |-> c.r, g |-> c.g, b |-> c.b],
          opacity |-> c.a]
    ELSE [type |-> "SOLID", color |-> [r |-> c.r, g |-> c.g, b |-> c.b]]

\* `${paletteName}/${colorName}`
FullColorName(paletteName, colorName) == paletteName \o <<"/">> \o colorName

\* paintChip.createInstance(): a copy of the component
CreateInstance(paintChip) ==
    Node("INSTANCE", paintChip.name, 0, paintChip.height, paintChip.children)

IndexAfterAlways(index, ok) == index + 1

\* index += 1 is the last statement of the try block
IndexAfter(index, ok) == IF ok THEN index + 1 ELSE index

\* the places where one pass of the loop body can throw
\*   "parse"    the value is no string: colorString.match is not a function
\*   "paints"   the host refuses the paints of the style
\*   "bind"     a write to the new instance throws (also when findChild
\*              found no node), the instance being already on the page
HostFailures == {"none", "paints", "bind"}

\* the end of one pass of the loop body, given where it threw (outcome),
\* what updateStyleAndReturnID did (upd) and the instance before (inst0) and
\* after (inst1) the writes to it
\* acc: styles, nextId, kids (children of the frame), orphans (instances
\* left on the page), index, logs (console.log calls), rets (per entry: the
\* outcome and the style id returned)
EntryDone(acc, outcome, upd, inst0, inst1) ==
    LET ok   == outcome = "none"
        done == outcome # "parse"
    IN  [styles  |-> IF done THEN upd.styles ELSE acc.styles,
         nextId  |-> IF done THEN upd.nextId ELSE acc.nextId,
         kids    |-> IF ok THEN Append(acc.kids, inst1) ELSE acc.kids,
         orphans |-> IF outcome = "bind" THEN Append(acc.orphans, inst0)
                     ELSE acc.orphans,
         index   |-> IndexAfter(acc.index, ok),
         logs    |-> IF ok THEN acc.logs ELSE acc.logs + 1,
         rets    |-> Append(acc.rets,
                       [outcome |-> outcome,
                        id      |-> IF done THEN upd.id ELSE 0,
                        found   |-> done /\ upd.found])]

\* the instance after colorNode.fillStyleId = fillStyleId,
\* nameNode.characters = fullColorName, newNode.name = fullColorName
BindInstance(inst, colorNode, nameNode, fillStyleId, fullColorName) ==
    IF colorNode = 0 \/ nameNode = 0 THEN inst
    ELSE [inst EXCEPT !.children[colorNode].fillStyleId = fillStyleId,
                      !.children[nameNode].characters = fullColorName,
                      !.name = fullColorName]

\* where the pass throws: a value that is no string throws in stringToRGBA,
\* a missing Color or Name node throws at the write to it
Outcome(entry, hostFailure, colorNode, nameNode) ==
    IF ~entry.isString THEN "parse"
    ELSE IF hostFailure = "none" /\ (colorNode = 0 \/ nameNode = 0) THEN "bind"
    ELSE hostFailure

EntryWith(acc, entry, fail, upd, inst0, colorNode, nameNode, fullName) ==
    EntryDone(acc, Outcome(entry, fail, colorNode, nameNode), upd, inst0,
              BindInstance(inst0, colorNode, nameNode, upd.id, fullName))

EntryOn(acc, known, entry, paintChip, hostFailure, fullColorName, inst0) ==
    EntryWith(acc, entry, hostFailure,
              updateStyleAndReturnID(
                  [styles |-> acc.styles, nextId |-> acc.nextId], known,
                  fullColorName,
                  SolidPaint(stringToRGBA(entry.value)),
                  hostFailure = "paints"),
              inst0,
              findChild(inst0, ColorName, "RECTANGLE"),
              findChild(inst0, NameName, "TEXT"),
              fullColorName)

\* one pass of the loop body (the try block and its catch)
PaletteEntry(acc, known, paletteName, entry, paintChip, hostFailure) ==
    EntryOn(acc, known, entry, paintChip, hostFailure,
            FullColorName(paletteName, entry.key),
            [CreateInstance(paintChip) EXCEPT
                !.y = paintChip.height * acc.index])

\* for (const colorName in paletteColors): the entries in insertion order
RECURSIVE PaletteLoop(_, _, _, _, _, _, _)
PaletteLoop(acc, known, paletteName, paletteColors, paintChip, fails, k) ==
    IF k > Len(paletteColors) THEN acc
    ELSE PaletteLoop(
             PaletteEntry(acc, known, paletteName, paletteColors[k],
                          paintChip, fails[k]),
             known, paletteName, paletteColors, paintChip, fails, k + 1)

\* createPalette(paletteName, paletteColors, paintChip) on the document
\* (pg, st, id): the document after it, and what the loop did.  The frame is
\* on the page from figma.createFrame() on and is moved to the end by
\* figma.currentPage.appendChild(frame).
createPalette(pg, st, id, paletteName, paletteColors, paintChip, fails) ==
    LET acc0  == [styles |-> st, nextId |-> id, kids |-> <<>>,
                  orphans |-> <<>>, index |-> 0, logs |-> 0, rets |-> <<>>]
        acc   == PaletteLoop(acc0, Len(st), paletteName, paletteColors,
                             paintChip, fails, 1)
        frame == [Node("FRAME", paletteName, 0,
                       paintChip.height * (acc.index + 1), acc.kids)
                    EXCEPT !.layoutMode = "VERTICAL"]
    IN  [page   |-> pg \o acc.orphans \o <<frame>>,
         styles |-> acc.styles,
         nextId |-> acc.nextId,
         logs   |-> acc.logs,
         rets   |-> acc.rets]

(***************************************************************************)
(* createChipComponent                                                     *)
(***************************************************************************)
Leaf(type, name, characters) ==
    [Node(type, name, 0, 32, <<>>) EXCEPT !.characters = characters]

ChipComponent(name, children) == Node("COMPONENT", name, 0, ChipHeight, children)

\* the component createChipComponent appends to the page
createChipComponent ==
    ChipComponent(PaintChipName,
        << Leaf("RECTANGLE", ColorName, <<>>),
           Leaf("TEXT", NameName,
                <<"p", "a", "l", "e", "t", "t", "e", "/", "c", "o", "l", "o",
                  "r">>) >>)

(***************************************************************************)
(* The plugin: figma.ui.onmessage and the callbacks of its font loads      *)
(***************************************************************************)
MaxSessions == 2    \* plugin launches on one document
MaxPending  == 2    \* font loads in flight at once

\* the paint a colour value denotes
Opaque(r, g, b) ==
    [type |-> "SOLID", color |-> [r |-> Num(r), g |-> Num(g), b |-> Num(b)]]
Translucent(r, g, b, n, d) ==
    [type |-> "SOLID", color |-> [r |-> Num(r), g |-> Num(g), b |-> Num(b)],
     opacity |-> Rat(n, d)]

\* one entry of msg.colors.colors: the colour name and its value (a string,
\* or something else the JSON held), and the paint the value denotes
Entry(key, value, isString, paint) ==
    [key |-> key, value |-> value, isString |-> isString, paint |-> paint]

C1Red   == Entry(<<"c", "1">>, <<"#", "F", "0", "0">>, TRUE, Opaque(1, 0, 0))
C1Blue  == Entry(<<"c", "1">>, <<"#", "0", "0", "0", "0", "F", "F">>, TRUE,
                 Opaque(0, 0, 1))
C2Num   == Entry(<<"c", "2">>, <<>>, FALSE, Opaque(0, 0, 0))
C3Green == Entry(<<"c", "3">>,
                 <<"r", "g", "b", "a", "(", "0", ",", "2", "5", "5", ",", "0",
                   ",", "0", ".", "5", ")">>,
                 TRUE, Translucent(0, 1, 0, 1, 2))

\* msg.colors.colors, each with unique colour names
Palettes ==
    { <<>>, <<C1Blue>>, <<C1Red, C2Num, C3Green>> }

PaletteName == <<"p">>

Msg(type, hasColors, colors) ==
    [type |-> type, hasColors |-> hasColors, name |-> PaletteName,
     colors |-> colors]

Pending(kind, name, colors, chip) ==
    [kind |-> kind, name |-> name, colors |-> colors, chip |-> chip]

\* the font loads left unsettled when figma.closePlugin() ends the plugin at
\* the settling of load i: their callbacks are gone with the plugin
Abandon(seq, i) ==
    [k \in 1..(Len(seq) - 1) |->
        Pending((IF k < i THEN seq[k] ELSE seq[k + 1]).kind, <<>>, <<>>, 0)]

ColorLeaf == Leaf("RECTANGLE", ColorName, <<>>)
NameLeaf  == Leaf("TEXT", NameName, <<"n">>)

\* the documents the plugin is launched on
InitialPages ==
    { <<>>,
      <<ChipComponent(PaintChipName, <<ColorLeaf, NameLeaf>>)>>,
      <<ChipComponent(PaintChipName, <<ColorLeaf>>)>>,
      <<ChipComponent(PaletteChipName, <<ColorLeaf, NameLeaf>>)>> }

InitialStyles ==
    { <<>>,
      <<[id |-> 1, name |-> FullColorName(PaletteName, <<"c", "1">>),
         paints |-> <<Opaque(0, 1, 0)>>]>> }

Init ==
    /\ page \in InitialPages
    /\ styles \in InitialStyles
    /\ nextId = Len(styles) + 1
    /\ loading = FALSE
    /\ pending = <<>>
    /\ closed = FALSE
    /\ sessions = 1
    /\ last = [op |-> "launch"]
    /\ input = <<>> /\ shape = Shape("raw", <<>>, <<>>, <<>>, <<>>, <<>>)
    /\ rgba = NoColor /\ out = <<>> /\ back = NoColor /\ cpc = "idle"

\* if (!loading) figma.closePlugin();
CloseUnlessLoading(flag) == IF ~flag THEN TRUE ELSE closed

\* msg.type === "create-palette"
OnCreatePalette(msg) ==
    /\ ~closed
    /\ msg.type = "create-palette"
    /\ IF ~msg.hasColors
       THEN \* msg.colors.name throws: the handler ends there
            /\ last' = [op |-> "message", msg |-> msg, result |-> "threw"]
            /\ UNCHANGED <<loading, pending, closed>>
       ELSE LET paintChip == FindFrom(page, PaintChipName, "COMPONENT", 1)
                hasColor  == findChild(page[paintChip], ColorName, "RECTANGLE")
                hasName   == findChild(page[paintChip], NameName, "TEXT")
            IN  IF paintChip # 0
                THEN IF hasName # 0 /\ hasColor # 0
                     THEN /\ Len(pending) < MaxPending
                          /\ loading' = TRUE
                          /\ pending' = Append(pending,
                                 Pending("palette", msg.name, msg.colors,
                                         paintChip))
                          /\ closed' = closed
                          /\ last' = [op |-> "message", msg |-> msg,
                                      result |-> "loading"]
                     ELSE /\ closed' = CloseUnlessLoading(loading)
                          /\ last' = [op |-> "message", msg |-> msg,
                                      result |-> "bad-chip"]
                          /\ UNCHANGED <<loading, pending>>
                ELSE /\ closed' = CloseUnlessLoading(loading)
                     /\ last' = [op |-> "message", msg |-> msg,
                                 result |-> "no-chip"]
                     /\ UNCHANGED <<loading, pending>>
    /\ UNCHANGED <<page, styles, nextId, sessions>>
    /\ UNCHANGED codecVars

\* msg.type === "create-component"
OnCreateComponent(msg) ==
    /\ ~closed
    /\ msg.type = "create-component"
    /\ Len(pending) < MaxPending
    /\ loading' = TRUE
    /\ pending' = Append(pending, Pending("component", <<>>, <<>>, 0))
    /\ last' = [op |-> "message", msg |-> msg, result |-> "loading"]
    /\ UNCHANGED <<page, styles, nextId, closed, sessions>>
    /\ UNCHANGED codecVars

\* any other msg.type
OnOtherMessage(msg) ==
    /\ ~closed
    /\ msg.type \notin {"create-palette", "create-component"}
    /\ closed' = CloseUnlessLoading(loading)
    /\ last' = [op |-> "message", msg |-> msg, result |-> "ignored"]
    /\ UNCHANGED <<page, styles, nextId, loading, pending, sessions>>
    /\ UNCHANGED codecVars

\* the host failures to choose from for each entry (none where the value
\* throws before the host is called)
FailureChoices(colors) ==
    { f \in [1..Len(colors) -> HostFailures] :
        \A k \in 1..Len(colors) : ~colors[k].isString => f[k] = "none" }

PaletteRun(p, fails) ==
    createPalette(page, styles, nextId, p.name, p.colors, page[p.chip], fails)

PaletteDone(p, run) ==
    /\ page' = run.page
    /\ styles' = run.styles
    /\ nextId' = run.nextId
    /\ last' = [op |-> "palette", name |-> p.name, colors |-> p.colors,
                rets |-> run.rets, logs |-> run.logs,
                height |-> page[p.chip].height]

\* multiFontLoader(hasName).then(...): createPalette, then closePlugin
PaletteFontsLoaded(i) ==
    /\ ~closed
    /\ i \in 1..Len(pending)
    /\ pending[i].kind = "palette"
    /\ \E fails \in FailureChoices(pending[i].colors) :
         PaletteDone(pending[i], PaletteRun(pending[i], fails))
    /\ pending' = Abandon(pending, i)
    /\ closed' = TRUE
    /\ UNCHANGED <<loading, sessions>>
    /\ UNCHANGED codecVars

\* the same when createPalette throws outside its try block (a host call
\* before the loop fails): the catch callback logs and closes
PaletteThrew(i) ==
    /\ ~closed
    /\ i \in 1..Len(pending)
    /\ pending[i].kind = "palette"
    /\ last' = [op |-> "palette-threw", name |-> pending[i].name,
                colors |-> pending[i].colors]
    /\ pending' = Abandon(pending, i)
    /\ closed' = TRUE
    /\ UNCHANGED <<page, styles, nextId, loading, sessions>>
    /\ UNCHANGED codecVars

\* singleFontLoader(fontName).then(...): createChipComponent, closePlugin
ComponentFontLoaded(i) ==
    /\ ~closed
    /\ i \in 1..Len(pending)
    /\ pending[i].kind = "component"
    /\ page' = Append(page, createChipComponent)
    /\ pending' = Abandon(pending, i)
    /\ closed' = TRUE
    /\ last' = [op |-> "component"]
    /\ UNCHANGED <<styles, nextId, loading, sessions>>
    /\ UNCHANGED codecVars

\* the catch callbacks of a rejected font load: log, closePlugin
FontLoadFailed(i) ==
    /\ ~closed
    /\ i \in 1..Len(pending)
    /\ pending' = Abandon(pending, i)
    /\ closed' = TRUE
    /\ last' = [op |-> "load-failed"]
    /\ UNCHANGED <<page, styles, nextId, loading, sessions>>
    /\ UNCHANGED codecVars

\* the user runs the plugin again on the same document: a fresh `loading`,
\* no callback of the closed run left
Relaunch ==
    /\ closed
    /\ sessions < MaxSessions
    /\ sessions' = sessions + 1
    /\ closed' = FALSE
    /\ loading' = FALSE
    /\ pending' = <<>>
    /\ last' = [op |-> "launch"]
    /\ UNCHANGED <<page, styles, nextId>>
    /\ UNCHANGED codecVars

Messages ==
    { Msg("create-palette", TRUE, c) : c \in Palettes }
    \cup { Msg("create-palette", FALSE, <<>>),
           Msg("create-component", FALSE, <<>>),
           Msg("resize", FALSE, <<>>) }

Next ==
    \/ \E msg \in Messages : OnCreatePalette(msg)
    \/ \E msg \in Messages : OnCreateComponent(msg)
    \/ \E msg \in Messages : OnOtherMessage(msg)
    \/ \E i \in 1..MaxPending : PaletteFontsLoaded(i)
    \/ \E i \in 1..MaxPending : PaletteThrew(i)
    \/ \E i \in 1..MaxPending : ComponentFontLoaded(i)
    \/ \E i \in 1..MaxPending : FontLoadFailed(i)
    \/ Relaunch

Spec == Init /\ [][Next]_vars

(***************************************************************************)
(* Properties of the plugin (checked under Spec)                           *)
(***************************************************************************)
StyleNames(st) == { st[i].name : i \in 1..Len(st) }

UniqueStyleNames ==
    \A i, j \in 1..Len(styles) : styles[i].name = styles[j].name => i = j

\* the step of a create-palette run
PaletteStep == ~closed /\ closed' /\ last'.op = "palette"

\* what the run did for entry k, against the styles before and after it
StyleFoundOrCreated(k) ==
    LET e       == last'.colors[k]
        ret     == last'.rets[k]
        name    == FullColorName(last'.name, e.key)
        existed == name \in StyleNames(styles)
        added   == { j \in (Len(styles) + 1)..Len(styles') :
                       styles'[j].name = name }
    IN  ret.outcome # "parse" =>
          /\ ret.found <=> existed
          /\ existed =>
               /\ added = {}
               /\ ret.outcome # "paints" =>
                    \E i \in 1..Len(styles) :
                       /\ styles[i].name = name
                       /\ ret.id = styles[i].id
                       /\ styles'[i].paints = <<e.paint>>
          /\ ~existed => Cardinality(added) = 1

StylesKept ==
    /\ Len(styles') >= Len(styles)
    /\ \A i \in 1..Len(styles) :
          styles'[i].id = styles[i].id /\ styles'[i].name = styles[i].name
    /\ \A j \in (Len(styles) + 1)..Len(styles') :
          styles'[j].name \notin StyleNames(styles)

\* C8: no two paint styles ever have the same name; a run updates the paints
\* of the style named paletteName/colorName when there is one, returning its
\* id and creating none, and creates a style only for a name no style has.
C8_FindOrCreate ==
    /\ []UniqueStyleNames
    /\ [][PaletteStep =>
            /\ StylesKept
            /\ \A k \in 1..Len(last'.colors) : StyleFoundOrCreated(k)]_vars

C8_Witness ==
    /\ last.op = "palette" /\ sessions = 2
    /\ last.colors = <<C1Blue>>
    /\ last.rets[1].found /\ last.rets[1].outcome = "none"
    /\ Len(styles) = 2
    /\ styles[1].paints = <<Opaque(0, 0, 1)>> /\ last.rets[1].id = styles[1].id
    /\ styles[2].name = FullColorName(PaletteName, <<"c", "3">>)

\* the names of the entries the run made a chip for, in order
RECURSIVE MadeNames(_, _, _, _)
MadeNames(name, colors, rets, k) ==
    IF k > Len(colors) THEN <<>>
    ELSE (IF rets[k].outcome = "none"
          THEN <<FullColorName(name, colors[k].key)>> ELSE <<>>)
         \o MadeNames(name, colors, rets, k + 1)

Failed(rets) == { k \in 1..Len(rets) : rets[k].outcome # "none" }

\* C9: a run in which the chip of some entry failed still handled every
\* entry: the frame, named and laid out, is the last node of the page, holds
\* a chip for exactly the entries that did not fail, in order, at
\* y = 0, h, 2h, ..., and each failure was logged.
C9_FailureIsPerEntry ==
    (last.op = "palette" /\ Failed(last.rets) # {}) =>
        LET frame == page[Len(page)]
            made  == MadeNames(last.name, last.colors, last.rets, 1)
        IN  /\ Len(last.rets) = Len(last.colors)
            /\ last.logs = Cardinality(Failed(last.rets))
            /\ frame.type = "FRAME"
            /\ frame.name = last.name
            /\ frame.layoutMode = "VERTICAL"
            /\ Len(frame.children) = Len(made)
            /\ \A j \in 1..Len(made) :
                 /\ frame.children[j].name = made[j]
                 /\ frame.children[j].y = last.height * (j - 1)

C9_Witness ==
    /\ last.op = "palette"
    /\ last.colors = <<C1Red, C2Num, C3Green>>
    /\ last.rets[1].outcome = "none"
    /\ last.rets[2].outcome = "parse"
    /\ last.rets[3].outcome = "none"
    /\ Len(page[Len(page)].children) = 2
    /\ page[Len(page)].children[2].y = ChipHeight

\* the component the README asks for
ReadmeChip(pg) ==
    \E i \in 1..Len(pg) :
       /\ pg[i].type = "COMPONENT" /\ pg[i].name = PaletteChipName
       /\ findChild(pg[i], ColorName, "RECTANGLE") # 0
       /\ findChild(pg[i], NameName, "TEXT") # 0

\* an instance named name, labelled name, filled with the style named name
ChipOnPage(name) ==
    \E f \in 1..Len(page) : \E c \in 1..Len(page[f].children) :
       LET inst == page[f].children[c]
           rect == findChild(inst, ColorName, "RECTANGLE")
           text == findChild(inst, NameName, "TEXT")
       IN  /\ inst.type = "INSTANCE" /\ inst.name = name
           /\ rect # 0 /\ text # 0
           /\ inst.children[text].characters = name
           /\ \E s \in 1..Len(styles) :
                 styles[s].name = name
                 /\ inst.children[rect].fillStyleId = styles[s].id

\* the colours of the create-palette request just dealt with that the plugin
\* could make a chip for: those of the message when the handler closed the
\* plugin itself, those without a failure when createPalette ran
RequestedKeys ==
    IF last.op = "message" /\ last.msg.type = "create-palette"
       /\ last.msg.hasColors
    THEN { last.msg.colors[k].key :
             k \in { n \in 1..Len(last.msg.colors) :
                       last.msg.colors[n].isString } }
    ELSE IF last.op = "palette"
    THEN { last.colors[k].key :
             k \in { n \in 1..Len(last.colors) :
                       last.rets[n].outcome = "none" } }
    ELSE {}

\* C10: on a page with the README's component (a top-level COMPONENT named
\* "PaletteChip" holding a RECTANGLE "Color" and a TEXT "Name"), once a
\* create-palette message has been dealt with there is, for each of its
\* colours, an instance named paletteName/colorName, labelled with that name
\* and filled with the style of that name.
C10_ReadmeChipWorks ==
    (closed /\ ReadmeChip(page)) =>
        \A key \in RequestedKeys : ChipOnPage(FullColorName(PaletteName, key))

(***************************************************************************)
(* Progress.  The host settles every font load the handler started: the    *)
(* promise of multiFontLoader / singleFontLoader resolves or rejects, and   *)
(* its then or catch callback runs unless the plugin has been closed.  The  *)
(* user is not obliged to send a further message or to run the plugin       *)
(* again.                                                                   *)
(***************************************************************************)
Settle ==
    \E i \in 1..MaxPending :
        \/ PaletteFontsLoaded(i)
        \/ PaletteThrew(i)
        \/ ComponentFontLoaded(i)
        \/ FontLoadFailed(i)

SpecLive == Init /\ [][Next]_vars /\ WF_vars(Settle)

\* the handler has just dealt with a message
Delivered == last.op = "message"

\* C12: every message delivered to the handler is followed, sooner or later,
\* by a call of figma.closePlugin, given that every font load it started
\* settles: for create-palette with or without a colors payload, with or
\* without the PaintChip component and its children, for create-component
\* and for any other message type.
C12_EveryMessageCloses == [](Delivered => <>closed)

\* C13: figma.closePlugin is never called while a font load the handler
\* started is still unsettled, whatever messages were delivered (a further
\* message arriving while a load is pending included): once the plugin is
\* closed, no started load is left unsettled.
C13_NoCloseWhileLoadPending == closed => pending = <<>>

====
